---------------------------- MODULE Spec2Model ----------------------------
(***************************************************************************)
(* Model of the theorygen keyboard: the PianoToken instrument (audio voice *)
(* manager, octave shifter, key rendering) and the pitch-class resolver    *)
(* shared with the non-audio Piano.                                        *)
(*                                                                         *)
(* Time is kept in milliseconds and advances in steps of TickMs, the       *)
(* greatest common divisor of the durations the code uses.  Countdowns are *)
(* relative: a scheduled oscillator stop and a pending setTimeout each     *)
(* hold the milliseconds left until they are due.                          *)
(***************************************************************************)
EXTENDS Integers, Sequences, FiniteSets, TLC

VARIABLES
    hasAudio,      \* window.AudioContext || webkitAudioContext exists
    audioCtx,      \* audioContextRef.current is non-null
    nodes,         \* every oscillator+gain pair created so far, by handle
    oscillators,   \* oscillatorsRef.current : midiNote -> oscillator handle
    gainNodes,     \* gainNodesRef.current   : midiNote -> gain handle
    playingNotes,  \* React state playingNotes : set of midiNote
    sustain,       \* React state sustain
    octaveShift,   \* React state octaveShift
    hasAccess,     \* React state hasAccess
    timers,        \* pending setTimeout callbacks, in insertion order
    activeNotes,   \* prop activeNotes : sequence of note names
    rootNote,      \* prop rootNote : a note name, <<>> when absent or empty
    note,          \* the note name handed to the pitch-class resolver
    walletConnected, \* React state walletConnected
    pendingBalance,  \* a checkTokenBalance call has not settled yet
    pendingSwitch,   \* the wallet_switchEthereumChain request is pending
    mounted,       \* App: the mount effect has run
    prompt,        \* App: React state prompt, a sequence of text chunks
    isLoading,     \* App: React state isLoading
    data,          \* App: React state data, a JSON value
    error,         \* App: React state error, a message or NoError
    presets,       \* App: React state presets, a JSON value
    storage,       \* localStorage slot 'theorygen_presets'
    clock,         \* Date.now(), in milliseconds
    requests,      \* analyzeMusicRequest calls that have not settled
    last           \* the handler that ran last, and what it found

vars == <<hasAudio, audioCtx, nodes, oscillators, gainNodes, playingNotes,
          sustain, octaveShift, hasAccess, timers, activeNotes, rootNote,
          note, walletConnected, pendingBalance, pendingSwitch, mounted,
          prompt, isLoading, data, error, presets, storage, clock, requests,
          last>>

audioVars == <<hasAudio, audioCtx, nodes, oscillators, gainNodes, timers>>
propVars == <<activeNotes, rootNote, note>>
walletVars == <<walletConnected, pendingBalance, pendingSwitch>>
appVars == <<mounted, prompt, isLoading, data, error, presets, storage, clock,
             requests>>

---------------------------------------------------------------------------
(* Bounds of the exploration *)

MaxOsc == 2        \* oscillators created in one run
MaxTimers == 2     \* setTimeout callbacks pending at once
MaxPressOct == 0   \* highest render-local octave whose keys are pressed
MaxPressPc == 0    \* highest pitch class whose keys are pressed
MaxNoteLen == 3    \* characters in a note name handed to the resolver
MaxActive == 2     \* note names in a sampled activeNotes prop

\* the characters note names are drawn from
NoteChars ==
    {"A", "B", "C", "D", "E", "F", "G", "a", "b", "c", "d", "e", "f", "g",
     "#", "4", "h"}

NoteStrings == UNION { [1 .. k -> NoteChars] : k \in 0 .. MaxNoteLen }

\* the note names the sampled props are built from
SampleNotes == {<<"C">>, <<"E">>, <<"h">>}

SampleLists == UNION { [1 .. k -> SampleNotes] : k \in 0 .. MaxActive }

---------------------------------------------------------------------------
(* Program constants *)

START_OCTAVE == 3
DEFAULT_OCTAVES == 2
MAX_OCTAVES == 4
ShortReleaseMs == 200
LongReleaseMs == 1500
CleanupMarginMs == 50
MinShift == 0 - 2
MaxShift == 2

Max(a, b) == IF a >= b THEN a ELSE b

RECURSIVE GCD(_, _)
GCD(a, b) == IF b = 0 THEN a ELSE GCD(b, a % b)

TickMs == GCD(ShortReleaseMs, GCD(LongReleaseMs, CleanupMarginMs))

---------------------------------------------------------------------------
(* Maps (JavaScript Map) as functions with a finite domain *)

EmptyMap == [k \in {} |-> 0]
MapHas(f, k) == k \in DOMAIN f
MapSet(f, k, v) == [x \in (DOMAIN f) \cup {k} |-> IF x = k THEN v ELSE f[x]]
\* variant: deleting one key clears the map
MapDelete_m(f, k) == EmptyMap

MapDelete(f, k) == [x \in (DOMAIN f) \ {k} |-> f[x]]

---------------------------------------------------------------------------
(* PianoToken: derived values *)

octaves == IF hasAccess THEN MAX_OCTAVES ELSE DEFAULT_OCTAVES

currentOctaveNumber(oct, shift) == START_OCTAVE + oct + shift

\* variant: the MIDI number is taken from the octave number itself
midiNoteOf_m(oct, noteIndex, shift) ==
    currentOctaveNumber(oct, shift) * 12 + noteIndex

midiNoteOf(oct, noteIndex, shift) ==
    (currentOctaveNumber(oct, shift) + 1) * 12 + noteIndex

\* the keys whose gestures are explored: <<render-local octave, pitch class>>
PressKeys ==
    { k \in (0 .. (octaves - 1)) \X (0 .. 11) :
        k[1] <= MaxPressOct /\ k[2] <= MaxPressPc }

---------------------------------------------------------------------------
(* Pitch-class resolver.  A note name is a sequence of one-character       *)
(* strings; an absent or empty rootNote is the empty sequence.             *)

LowerLetters ==
    <<"a", "b", "c", "d", "e", "f", "g", "h", "i", "j", "k", "l", "m",
      "n", "o", "p", "q", "r", "s", "t", "u", "v", "w", "x", "y", "z">>

UpperLetters ==
    <<"A", "B", "C", "D", "E", "F", "G", "H", "I", "J", "K", "L", "M",
      "N", "O", "P", "Q", "R", "S", "T", "U", "V", "W", "X", "Y", "Z">>

Digits == {"0", "1", "2", "3", "4", "5", "6", "7", "8", "9"}

UpperChar(c) ==
    IF \E i \in 1 .. Len(LowerLetters) : LowerLetters[i] = c
    THEN UpperLetters[CHOOSE i \in 1 .. Len(LowerLetters) :
                          LowerLetters[i] = c]
    ELSE c

\* variant: the name is looked up in the case it was written in
toUpperCase_m(str) == str

\* String.prototype.toUpperCase
toUpperCase(str) == [i \in 1 .. Len(str) |-> UpperChar(str[i])]

IsNotDigit(c) == c \notin Digits

\* .replace(/[0-9]/g, '')
removeDigits(str) == SelectSeq(str, IsNotDigit)

NOTE_TO_OFFSET ==
    (<<"C">> :> 0) @@ (<<"B", "#">> :> 0) @@
    (<<"C", "#">> :> 1) @@ (<<"D", "B">> :> 1) @@
    (<<"D">> :> 2) @@
    (<<"D", "#">> :> 3) @@ (<<"E", "B">> :> 3) @@
    (<<"E">> :> 4) @@ (<<"F", "B">> :> 4) @@
    (<<"F">> :> 5) @@ (<<"E", "#">> :> 5) @@
    (<<"F", "#">> :> 6) @@ (<<"G", "B">> :> 6) @@
    (<<"G">> :> 7) @@
    (<<"G", "#">> :> 8) @@ (<<"A", "B">> :> 8) @@
    (<<"A">> :> 9) @@
    (<<"A", "#">> :> 10) @@ (<<"B", "B">> :> 10) @@
    (<<"B">> :> 11) @@ (<<"C", "B">> :> 11)

\* variant: a missing entry falls back to 0
Lookup_m(n) == IF n \in DOMAIN NOTE_TO_OFFSET THEN NOTE_TO_OFFSET[n] ELSE 0

\* NOTE_TO_OFFSET[n] ?? -1
Lookup(n) == IF n \in DOMAIN NOTE_TO_OFFSET THEN NOTE_TO_OFFSET[n] ELSE 0 - 1

noteToOffset(str) == Lookup(removeDigits(toUpperCase(str)))

\* activeNotes.forEach(n => { offset = noteToOffset(n);
\*                            if (offset !== -1) s.add(offset) })
KeepOffset(offset) == offset # 0 - 1

activeIndices ==
    { offset \in { noteToOffset(activeNotes[i]) :
                      i \in 1 .. Len(activeNotes) } :
        KeepOffset(offset) }

\* rootNote ? noteToOffset(rootNote) : -1
rootIndex == IF rootNote # <<>> THEN noteToOffset(rootNote) ELSE 0 - 1

---------------------------------------------------------------------------
(* Key rendering: the elements pushed to generatedKeys, in order *)

whiteKeyWidth == 40
whiteKeyHeight == 160
blackKeyWidth == 24
blackKeyHeight == 100
OCTAVES == 2

\* variant: the seventh white key is pitch class 10
whiteNotes_m == <<0, 2, 4, 5, 7, 9, 10>>

whiteNotes == <<0, 2, 4, 5, 7, 9, 11>>

blackNotes ==
    <<[idx |-> 1, pos |-> 1], [idx |-> 3, pos |-> 2], [idx |-> 6, pos |-> 4],
      [idx |-> 8, pos |-> 5], [idx |-> 10, pos |-> 6]>>

totalWidth == 7 * whiteKeyWidth * octaves

\* variant: the root colour is tested before the pressed colour
tokenFill_m(base, isPressed, isRoot, isExternalActive) ==
    IF isRoot THEN "#8b5cf6"
    ELSE IF isPressed THEN "#22d3ee"
    ELSE IF isExternalActive THEN "#60a5fa"
    ELSE base

\* PianoToken: the fill of a key
tokenFill(base, isPressed, isRoot, isExternalActive) ==
    IF isPressed THEN "#22d3ee"
    ELSE IF isRoot THEN "#8b5cf6"
    ELSE IF isExternalActive THEN "#60a5fa"
    ELSE base

\* Piano: the fill of a key
pianoFill(base, rootColor, activeColor, isRoot, isActive) ==
    IF isRoot THEN rootColor
    ELSE IF isActive THEN activeColor
    ELSE base

xOffsetOf(oct) == oct * (whiteKeyWidth * 7)

whiteX(oct, i) == xOffsetOf(oct) + i * whiteKeyWidth

\* variant: a black key starts at the slot boundary instead of straddling it
blackX_m(oct, pos) == xOffsetOf(oct) + (pos * whiteKeyWidth)

blackX(oct, pos) ==
    xOffsetOf(oct) + (pos * whiteKeyWidth) - (blackKeyWidth \div 2)

\* variant: a white key is placed by its absolute octave
tokenWhite_m(oct, i, shift, aIdx, rIdx) ==
    LET noteIndex == whiteNotes[i + 1]
        midiNote == midiNoteOf(oct, noteIndex, shift)
    IN [kind |-> "white", oct |-> oct, noteIndex |-> noteIndex,
        midiNote |-> midiNote,
        x |-> whiteX(oct + shift, i), y |-> 0,
        width |-> whiteKeyWidth, height |-> whiteKeyHeight,
        fill |-> tokenFill("white", midiNote \in playingNotes,
                           rIdx = noteIndex,
                           noteIndex \in aIdx),
        text |-> <<>>]

tokenWhite(oct, i, shift, aIdx, rIdx) ==
    LET noteIndex == whiteNotes[i + 1]
        midiNote == midiNoteOf(oct, noteIndex, shift)
    IN [kind |-> "white", oct |-> oct, noteIndex |-> noteIndex,
        midiNote |-> midiNote,
        x |-> whiteX(oct, i), y |-> 0,
        width |-> whiteKeyWidth, height |-> whiteKeyHeight,
        fill |-> tokenFill("white", midiNote \in playingNotes,
                           rIdx = noteIndex,
                           noteIndex \in aIdx),
        text |-> <<>>]

tokenLabel(oct, i, shift) ==
    LET noteIndex == whiteNotes[i + 1]
    IN [kind |-> "label", oct |-> oct, noteIndex |-> noteIndex,
        midiNote |-> midiNoteOf(oct, noteIndex, shift),
        x |-> whiteX(oct, i) + whiteKeyWidth \div 2,
        y |-> whiteKeyHeight - 10,
        width |-> 0, height |-> 0, fill |-> "#94a3b8",
        text |-> <<"C", currentOctaveNumber(oct, shift)>>]

tokenBlack(oct, j, shift, aIdx, rIdx) ==
    LET idx == blackNotes[j].idx
        midiNote == midiNoteOf(oct, idx, shift)
    IN [kind |-> "black", oct |-> oct, noteIndex |-> idx,
        midiNote |-> midiNote,
        x |-> blackX(oct, blackNotes[j].pos), y |-> 0,
        width |-> blackKeyWidth, height |-> blackKeyHeight,
        fill |-> tokenFill("#1e293b", midiNote \in playingNotes,
                           rIdx = idx, idx \in aIdx),
        text |-> <<>>]

RECURSIVE tokenWhites(_, _, _, _, _)
tokenWhites(oct, i, shift, aIdx, rIdx) ==
    IF i >= Len(whiteNotes) THEN <<>>
    ELSE (IF whiteNotes[i + 1] = 0
          THEN <<tokenWhite(oct, i, shift, aIdx, rIdx),
                 tokenLabel(oct, i, shift)>>
          ELSE <<tokenWhite(oct, i, shift, aIdx, rIdx)>>)
         \o tokenWhites(oct, i + 1, shift, aIdx, rIdx)

tokenBlacks(oct, shift, aIdx, rIdx) ==
    [j \in 1 .. Len(blackNotes) |-> tokenBlack(oct, j, shift, aIdx, rIdx)]

RECURSIVE tokenKeys(_, _, _, _, _)
tokenKeys(oct, count, shift, aIdx, rIdx) ==
    IF oct >= count THEN <<>>
    ELSE tokenWhites(oct, 0, shift, aIdx, rIdx)
         \o tokenBlacks(oct, shift, aIdx, rIdx)
         \o tokenKeys(oct + 1, count, shift, aIdx, rIdx)

\* PianoToken: const keys = useMemo(...)
keys == tokenKeys(0, octaves, octaveShift, activeIndices, rootIndex)

pianoWhite(oct, i, aIdx, rIdx) ==
    LET noteIndex == whiteNotes[i + 1]
    IN [kind |-> "white", oct |-> oct, noteIndex |-> noteIndex,
        x |-> whiteX(oct, i), y |-> 0,
        width |-> whiteKeyWidth, height |-> whiteKeyHeight,
        fill |-> pianoFill("white", "#8b5cf6", "#60a5fa",
                           rIdx = noteIndex,
                           noteIndex \in aIdx),
        text |-> <<>>]

pianoLabel(oct, i) ==
    [kind |-> "label", oct |-> oct, noteIndex |-> whiteNotes[i + 1],
     x |-> whiteX(oct, i) + whiteKeyWidth \div 2, y |-> whiteKeyHeight - 10,
     width |-> 0, height |-> 0, fill |-> "#94a3b8",
     text |-> <<"C", START_OCTAVE + oct>>]

pianoBlack(oct, j, aIdx, rIdx) ==
    LET idx == blackNotes[j].idx
    IN [kind |-> "black", oct |-> oct, noteIndex |-> idx,
        x |-> blackX(oct, blackNotes[j].pos), y |-> 0,
        width |-> blackKeyWidth, height |-> blackKeyHeight,
        fill |-> pianoFill("#1e293b", "#7c3aed", "#3b82f6",
                           rIdx = idx, idx \in aIdx),
        text |-> <<>>]

RECURSIVE pianoWhites(_, _, _, _)
pianoWhites(oct, i, aIdx, rIdx) ==
    IF i >= Len(whiteNotes) THEN <<>>
    ELSE (IF whiteNotes[i + 1] = 0
          THEN <<pianoWhite(oct, i, aIdx, rIdx), pianoLabel(oct, i)>>
          ELSE <<pianoWhite(oct, i, aIdx, rIdx)>>)
         \o pianoWhites(oct, i + 1, aIdx, rIdx)

pianoBlacks(oct, aIdx, rIdx) ==
    [j \in 1 .. Len(blackNotes) |-> pianoBlack(oct, j, aIdx, rIdx)]

RECURSIVE pianoKeysFrom(_, _, _)
pianoKeysFrom(oct, aIdx, rIdx) ==
    IF oct >= OCTAVES THEN <<>>
    ELSE pianoWhites(oct, 0, aIdx, rIdx) \o pianoBlacks(oct, aIdx, rIdx)
         \o pianoKeysFrom(oct + 1, aIdx, rIdx)

\* Piano: const keys = useMemo(...)
pianoKeys == pianoKeysFrom(0, activeIndices, rootIndex)

---------------------------------------------------------------------------
(* Audio voice manager *)

releaseTime(sus) == IF sus THEN LongReleaseMs ELSE ShortReleaseMs

\* variant: the record is dropped at the end of the ramp, without margin
cleanupDelay_m(sus) == releaseTime(sus)

cleanupDelay(sus) == releaseTime(sus) + CleanupMarginMs

\* a node that was started and has not reached a scheduled stop time
Live(n) == n.started /\ ~(n.stopSet /\ n.stopIn = 0)

\* osc.stop(now + rel): the last call wins unless the node already stopped
StopAt(n, rel) ==
    IF n.stopSet /\ n.stopIn = 0 THEN n
    ELSE [n EXCEPT !.stopSet = TRUE, !.stopIn = rel]

\* ctx.createOscillator() + ctx.createGain(), osc.start(now)
NewNode(m) ==
    [midi |-> m, started |-> TRUE, stopSet |-> FALSE, stopIn |-> 0]

\* variant: a context is obtained whether or not the browser offers one
initAudio_m == TRUE

\* initAudio
initAudio == audioCtx \/ hasAudio

\* the voice-exists check of playNoteStart
VoiceExists(m) == MapHas(oscillators, m)

playNoteStart(m) ==
    /\ audioCtx' = initAudio
    /\ IF ~initAudio
       THEN /\ last' = [op |-> "start", midi |-> m,
                        did |-> "noctx", delay |-> 0]
            /\ UNCHANGED <<nodes, oscillators, gainNodes, playingNotes>>
       ELSE IF VoiceExists(m)
       THEN /\ last' = [op |-> "start", midi |-> m,
                        did |-> "exists", delay |-> 0]
            /\ UNCHANGED <<nodes, oscillators, gainNodes, playingNotes>>
       ELSE /\ Len(nodes) < MaxOsc
            /\ nodes' = Append(nodes, NewNode(m))
            /\ oscillators' = MapSet(oscillators, m, Len(nodes) + 1)
            /\ gainNodes' = MapSet(gainNodes, m, Len(nodes) + 1)
            /\ playingNotes' = playingNotes \cup {m}
            /\ last' = [op |-> "start", midi |-> m,
                        did |-> "created", delay |-> 0]
    /\ UNCHANGED <<hasAudio, sustain, octaveShift, hasAccess, timers,
                   propVars, walletVars, appVars>>

\* setTimeout(callback, delay): the callback closes over midiNote
NewTimer(m, delay) == [midi |-> m, delay |-> delay, due |-> delay]

playNoteStop(m) ==
    /\ IF audioCtx /\ MapHas(oscillators, m) /\ MapHas(gainNodes, m)
       THEN /\ Len(timers) < MaxTimers
            /\ nodes' = [nodes EXCEPT ![oscillators[m]] =
                             StopAt(@, releaseTime(sustain))]
            /\ timers' = Append(timers, NewTimer(m, cleanupDelay(sustain)))
            /\ last' = [op |-> "stop", midi |-> m, did |-> "released",
                        delay |-> cleanupDelay(sustain)]
       ELSE /\ last' = [op |-> "stop", midi |-> m, did |-> "novoice",
                        delay |-> IF /\ last.op = "timer"
                                     /\ last.did = "deleted"
                                     /\ last.midi = m
                                  THEN last.delay ELSE 0]
            /\ UNCHANGED <<nodes, timers>>
    /\ playingNotes' = playingNotes \ {m}
    /\ UNCHANGED <<hasAudio, audioCtx, oscillators, gainNodes, sustain,
                   octaveShift, hasAccess, propVars,
                   walletVars, appVars>>

\* the setTimeout callback of playNoteStop
DueTimers == { i \in 1 .. Len(timers) : timers[i].due = 0 }

RemoveAt(s, i) == SubSeq(s, 1, i - 1) \o SubSeq(s, i + 1, Len(s))

Min(S) == CHOOSE x \in S : \A y \in S : x <= y

cleanupTimer ==
    /\ DueTimers # {}
    /\ LET i == Min(DueTimers)
           m == timers[i].midi
       IN /\ oscillators' = MapDelete(oscillators, m)
          /\ gainNodes' = MapDelete(gainNodes, m)
          /\ timers' = RemoveAt(timers, i)
          /\ last' = [op |-> "timer", midi |-> m,
                      did |-> IF MapHas(oscillators, m)
                              THEN "deleted" ELSE "nothing",
                      delay |-> timers[i].delay]
    /\ UNCHANGED <<hasAudio, audioCtx, nodes, playingNotes, sustain,
                   octaveShift, hasAccess, propVars,
                   walletVars, appVars>>

---------------------------------------------------------------------------
(* Passage of time *)

Elapse(x) == IF x > TickMs THEN x - TickMs ELSE 0

Pending ==
    \/ \E i \in 1 .. Len(timers) : timers[i].due > 0
    \/ \E i \in 1 .. Len(nodes) : nodes[i].stopSet /\ nodes[i].stopIn > 0

Tick ==
    /\ DueTimers = {}
    /\ Pending
    /\ timers' = [i \in 1 .. Len(timers) |->
                     [timers[i] EXCEPT !.due = Elapse(@)]]
    /\ nodes' = [i \in 1 .. Len(nodes) |->
                     [nodes[i] EXCEPT !.stopIn = Elapse(@)]]
    /\ last' = [op |-> "tick", midi |-> 0, did |-> "tick", delay |-> 0]
    /\ UNCHANGED <<hasAudio, audioCtx, oscillators, gainNodes, playingNotes,
                   sustain, octaveShift, hasAccess, propVars,
                   walletVars, appVars>>

---------------------------------------------------------------------------
(* Controls *)

ToggleSustain ==
    /\ sustain' = ~sustain
    /\ last' = [op |-> "sustain", midi |-> 0, did |-> "toggled", delay |-> 0]
    /\ UNCHANGED <<audioVars, playingNotes, octaveShift, hasAccess, propVars,
                   walletVars, appVars>>

shiftDownValue(s) == Max(s - 1, MinShift)
shiftUpValue(s) == Max(s + 1, MaxShift)
shiftDownDisabled == octaveShift <= MinShift
\* variant: the up button stays enabled one step longer
shiftUpDisabled_m == octaveShift >= MaxShift + 1

shiftUpDisabled == octaveShift >= MaxShift

ShiftDown ==
    /\ ~shiftDownDisabled
    /\ octaveShift' = shiftDownValue(octaveShift)
    /\ last' = [op |-> "shiftDown", midi |-> 0, did |-> "shifted", delay |-> 0]
    /\ UNCHANGED <<audioVars, playingNotes, sustain, hasAccess, propVars,
                   walletVars, appVars>>

ShiftUp ==
    /\ ~shiftUpDisabled
    /\ octaveShift' = shiftUpValue(octaveShift)
    /\ last' = [op |-> "shiftUp", midi |-> 0, did |-> "shifted", delay |-> 0]
    /\ UNCHANGED <<audioVars, playingNotes, sustain, hasAccess, propVars,
                   walletVars, appVars>>

---------------------------------------------------------------------------
(* Gestures on the rendered keys *)

PressStart ==
    \E k \in PressKeys : playNoteStart(midiNoteOf(k[1], k[2], octaveShift))

PressEnd ==
    \E k \in PressKeys : playNoteStop(midiNoteOf(k[1], k[2], octaveShift))

---------------------------------------------------------------------------
(* Props and token gate *)

\* the parent renders the component with new activeNotes and rootNote
SetProps(an, rn) ==
    /\ activeNotes' = an
    /\ rootNote' = rn
    /\ last' = [op |-> "props", midi |-> 0, did |-> "rendered", delay |-> 0]
    /\ UNCHANGED <<audioVars, playingNotes, sustain, octaveShift, hasAccess,
                   note, walletVars, appVars>>

\* props sampled from a few note names
PassProps ==
    \E an \in SampleLists : \E rn \in SampleNotes \cup {<<>>} : SetProps(an, rn)

\* props that carry the note name under test, alone or after a valid name
PassNote ==
    \E ctx \in {<<>>, <<<<"C">>>>} : \E rn \in {<<>>, note} :
        SetProps(Append(ctx, note), rn)

\* connectWallet, from the click to the first pending request: without a
\* wallet it alerts and returns; a rejected account request is caught; a
\* granted one sets walletConnected, calls checkTokenBalance without
\* awaiting it and then asks the wallet to switch to the Base chain.  The
\* button is rendered only while walletConnected is false.
connectWallet ==
    /\ ~walletConnected
    /\ \E outcome \in {"nowallet", "rejected", "connected"} :
        /\ walletConnected' = (outcome = "connected")
        /\ pendingBalance' = (outcome = "connected")
        /\ pendingSwitch' = (outcome = "connected")
        /\ last' = [op |-> "connect", midi |-> 0, did |-> outcome, delay |-> 0]
    /\ UNCHANGED <<audioVars, playingNotes, sustain, octaveShift, hasAccess,
                   propVars, appVars>>

\* checkTokenBalance settling: parseFloat(formattedBalance) > 0 unlocks the
\* range; a zero balance or a failed call leaves hasAccess as it is
checkTokenBalance ==
    /\ pendingBalance
    /\ \E outcome \in {"positive", "zero", "failed"} :
        /\ hasAccess' = (hasAccess \/ outcome = "positive")
        /\ last' = [op |-> "balance", midi |-> 0, did |-> outcome, delay |-> 0]
    /\ pendingBalance' = FALSE
    /\ UNCHANGED <<audioVars, playingNotes, sustain, octaveShift, propVars,
                   walletConnected, pendingSwitch, appVars>>

\* wallet_switchEthereumChain settling: every rejection is caught; code 4902
\* (unknown chain) also raises an alert
switchEthereumChain ==
    /\ pendingSwitch
    /\ \E outcome \in {"switched", "unknownchain", "refused"} :
        last' = [op |-> "switch", midi |-> 0, did |-> outcome, delay |-> 0]
    /\ pendingSwitch' = FALSE
    /\ UNCHANGED <<audioVars, playingNotes, sustain, octaveShift, hasAccess,
                   propVars, walletConnected, pendingBalance, appVars>>

---------------------------------------------------------------------------
(* JSON values, tagged by their JavaScript type *)

Null == [t |-> "null"]
Undefined == [t |-> "undefined"]
Num(n) == [t |-> "number", n |-> n]
Str(x) == [t |-> "string", s |-> x]
\* an array of objects, and an array of strings
List(x) == [t |-> "array", v |-> x]
StringList(x) == [t |-> "array", items |-> x]

\* error === null
NoError == "none"

\* localStorage.getItem of a slot that was never written
Absent == [t |-> "absent"]

\* a JavaScript value used as a condition
Truthy(v) ==
    CASE v.t = "null" -> FALSE
      [] v.t = "undefined" -> FALSE
      [] v.t = "number" -> v.n # 0
      [] v.t = "string" -> v.s # <<>>
      [] OTHER -> TRUE

---------------------------------------------------------------------------
(* JSON text: a sequence of tokens.  An array is written as an opening     *)
(* bracket, its elements and a closing bracket; every other value is one   *)
(* token.                                                                  *)

LB == [tok |-> "[", v |-> Null]
RB == [tok |-> "]", v |-> Null]
Val(x) == [tok |-> "value", v |-> x]

Text(toks) == [t |-> "text", toks |-> toks]

SyntaxError == [t |-> "SyntaxError"]

\* JSON.stringify
stringify(x) ==
    IF x.t = "array"
    THEN <<LB>> \o [i \in 1 .. Len(x.v) |-> Val(x.v[i])] \o <<RB>>
    ELSE <<Val(x)>>

\* JSON.parse: the value, or SyntaxError when it throws
parse(toks) ==
    IF Len(toks) = 1 /\ toks[1].tok = "value" THEN toks[1].v
    ELSE IF /\ Len(toks) >= 2
            /\ toks[1] = LB
            /\ toks[Len(toks)] = RB
            /\ \A i \in 2 .. Len(toks) - 1 : toks[i].tok = "value"
    THEN List([i \in 1 .. Len(toks) - 2 |-> toks[i + 1].v])
    ELSE SyntaxError

---------------------------------------------------------------------------
(* App: theory results, presets and the values explored *)

MaxPresets == 2    \* presets held in the list
MaxClock == 3      \* the latest Date.now() explored

TheoryResult(root, type, notes) ==
    [t |-> "object", root |-> root, type |-> type, notes |-> notes]

ResultA == TheoryResult("C", "Major", StringList(<<"C", "E", "G">>))
ResultB == TheoryResult("D", "Dorian", StringList(<<"D", "E", "F">>))

\* a parseable payload without the notes field
ResultNoNotes == TheoryResult("C", "Major", Undefined)

\* newPreset of handleSavePreset
NewPreset(d, now) ==
    [t |-> "object", id |-> now, name |-> <<d.root, " ", d.type>>,
     data |-> d, timestamp |-> now]

\* what the generateContent call can come back with: a rejection, or a
\* response whose text is missing, cut short, or the JSON of some value
Rejected == [t |-> "rejected"]

Responses ==
    {Rejected, Text(<<>>), Text(<<LB>>)} \cup
    { Text(stringify(x)) : x \in {ResultA, ResultB, ResultNoNotes, Null,
                                  Num(5)} }

\* what the storage slot can hold when the page opens
StoredSlots ==
    {Absent, Text(<<>>), Text(<<LB, Val(NewPreset(ResultA, 0))>>)} \cup
    { Text(stringify(x)) :
        x \in {Null, Num(5), Str(<<"ab">>), List(<<>>),
               List(<<NewPreset(ResultA, 0)>>)} }

Prompts == {<<>>, <<" ">>, <<"Dm">>}

SUGGESTIONS == {<<"C Major Scale">>}

\* String.prototype.trim on chunked text
RECURSIVE trimStart(_)
trimStart(str) ==
    IF str # <<>> /\ Head(str) = " " THEN trimStart(Tail(str)) ELSE str

RECURSIVE trimEnd(_)
trimEnd(str) ==
    IF str # <<>> /\ str[Len(str)] = " "
    THEN trimEnd(SubSeq(str, 1, Len(str) - 1)) ELSE str

trim(str) == trimEnd(trimStart(str))

\* variant: the catch block leaves the error unset
ErrorMessage_m == NoError

ErrorMessage == "Failed to analyze music theory request. Please try again."

\* the render of App throws a TypeError: presets.length of null,
\* presets.map of a string, data.notes of a value without notes
presetsRenderThrows ==
    \/ presets.t = "null"
    \/ presets.t = "string" /\ Len(presets.s) > 0

dataRenderThrows ==
    /\ Truthy(data)
    /\ IF data.t = "object" THEN data.notes.t # "array" ELSE TRUE

renderThrows == presetsRenderThrows \/ dataRenderThrows

\* the App is on screen and takes events
Interactive == mounted /\ ~renderThrows

AppLast(op, did, arg) ==
    [op |-> op, midi |-> 0, did |-> did, delay |-> 0, arg |-> arg]

keyboardVars ==
    <<audioVars, playingNotes, sustain, octaveShift, hasAccess, propVars,
      walletVars>>

---------------------------------------------------------------------------
(* App: the mount effect and the handlers *)

\* what the mount effect leaves in presets for a given slot content
loadedPresets(saved, current) ==
    IF saved.t = "absent" THEN current
    ELSE IF saved.toks = <<>> THEN current
    ELSE IF parse(saved.toks) = SyntaxError THEN current
    ELSE parse(saved.toks)

\* useEffect(() => {...}, []): read the slot once
loadPresets ==
    /\ ~mounted
    /\ mounted' = TRUE
    /\ presets' = loadedPresets(storage, presets)
    /\ last' = AppLast("mount",
                       IF presets' = presets THEN "kept" ELSE "loaded",
                       storage)
    /\ UNCHANGED <<keyboardVars, prompt, isLoading, data, error, storage,
                   clock, requests>>

\* the browser reloads the page: React state starts over, the slot stays
reload ==
    /\ mounted
    /\ mounted' = FALSE
    /\ prompt' = <<>>
    /\ isLoading' = FALSE
    /\ data' = Null
    /\ error' = NoError
    /\ presets' = List(<<>>)
    /\ requests' = <<>>
    /\ last' = AppLast("reload", "reloaded", Null)
    /\ UNCHANGED <<keyboardVars, storage, clock>>

\* Date.now() moves on
advanceClock ==
    /\ clock < MaxClock
    /\ clock' = clock + 1
    /\ last' = AppLast("clock", "advanced", Null)
    /\ UNCHANGED <<keyboardVars, mounted, prompt, isLoading, data, error,
                   presets, storage, requests>>

\* onChange of the input, which is disabled while loading
typePrompt ==
    /\ Interactive
    /\ ~isLoading
    /\ \E p \in Prompts : prompt' = p
    /\ last' = AppLast("type", "typed", Null)
    /\ UNCHANGED <<keyboardVars, mounted, isLoading, data, error, presets,
                   storage, clock, requests>>

\* handleRequest up to its await
handleRequest(requestText) ==
    /\ prompt' = requestText
    /\ isLoading' = TRUE
    /\ error' = NoError
    /\ requests' = Append(requests, requestText)
    /\ last' = AppLast("request", "sent", requestText)
    /\ UNCHANGED <<keyboardVars, mounted, data, presets, storage, clock>>

\* disabled={isLoading || !prompt.trim()} of the submit button
submitDisabled == isLoading \/ trim(prompt) = <<>>

\* handleSubmit, reached through the enabled submit button
handleSubmit ==
    /\ Interactive
    /\ ~submitDisabled
    /\ handleRequest(prompt)

\* variant: the suggestions stay on screen while a request is loading
suggestionsShown_m == ~Truthy(data)

\* {!data && !isLoading && (...)}: the suggestion buttons are rendered
suggestionsShown == ~Truthy(data) /\ ~isLoading

\* a click on a suggestion button
clickSuggestion ==
    /\ Interactive
    /\ suggestionsShown
    /\ \E sug \in SUGGESTIONS : handleRequest(sug)

\* analyzeMusicRequest from the response on: the value it returns, or
\* Rejected when it throws
analyzeMusicRequest(response) ==
    IF response = Rejected THEN Rejected
    ELSE IF response.toks = <<>> THEN Rejected
    ELSE IF parse(response.toks) = SyntaxError THEN Rejected
    ELSE parse(response.toks)

\* handleRequest after its await: try / catch / finally
settleRequest ==
    /\ mounted
    /\ requests # <<>>
    /\ \E i \in 1 .. Len(requests) : \E response \in Responses :
        LET result == analyzeMusicRequest(response)
        IN /\ requests' = RemoveAt(requests, i)
           /\ IF result = Rejected
              THEN /\ error' = ErrorMessage
                   /\ UNCHANGED data
                   /\ last' = AppLast("settle", "failed", response)
              ELSE /\ data' = result
                   /\ UNCHANGED error
                   /\ last' = AppLast("settle", "resolved", response)
    /\ isLoading' = FALSE
    /\ UNCHANGED <<keyboardVars, mounted, prompt, presets, storage, clock>>

\* variant: the new preset is put behind the existing ones
updatedAfterSave_m(newPreset, list) == List(list.v \o <<newPreset>>)

\* [newPreset, ...presets]
updatedAfterSave(newPreset, list) == List(<<newPreset>> \o list.v)

\* handleSavePreset; spreading a number throws before any state is set
handleSavePreset ==
    /\ Interactive
    /\ Truthy(data)
    /\ IF presets.t = "array"
       THEN /\ Len(presets.v) < MaxPresets
            /\ presets' = updatedAfterSave(NewPreset(data, clock), presets)
            /\ storage' = Text(stringify(presets'))
            /\ last' = AppLast("save", "saved", clock)
       ELSE /\ UNCHANGED <<presets, storage>>
            /\ last' = AppLast("save", "threw", clock)
    /\ UNCHANGED <<keyboardVars, mounted, prompt, isLoading, data, error,
                   clock, requests>>

\* variant: the comparison of the filter is inverted
KeepPreset_m(id, p) == p.id = id

KeepPreset(id, p) == p.id # id

\* presets.filter(p => p.id !== id)
updatedAfterDelete(id, list) ==
    LET Keep(p) == KeepPreset(id, p) IN List(SelectSeq(list.v, Keep))

\* handleDeletePreset, for any id; filter of a number throws
handleDeletePreset ==
    /\ Interactive
    /\ \E id \in 0 .. MaxClock :
        IF presets.t = "array"
        THEN /\ presets' = updatedAfterDelete(id, presets)
             /\ storage' = Text(stringify(presets'))
             /\ last' = AppLast("delete", "deleted", id)
        ELSE /\ UNCHANGED <<presets, storage>>
             /\ last' = AppLast("delete", "threw", id)
    /\ UNCHANGED <<keyboardVars, mounted, prompt, isLoading, data, error,
                   clock, requests>>


\* variant: loading a preset drops the request in flight
handleLoadPreset_m ==
    /\ Interactive
    /\ presets.t = "array"
    /\ \E i \in 1 .. Len(presets.v) :
        /\ data' = presets.v[i].data
        /\ prompt' = presets.v[i].name
        /\ last' = AppLast("load", "loaded", i)
    /\ requests' = <<>>
    /\ isLoading' = FALSE
    /\ UNCHANGED <<keyboardVars, mounted, error, presets, storage, clock>>

\* handleLoadPreset of a rendered preset
handleLoadPreset ==
    /\ Interactive
    /\ presets.t = "array"
    /\ \E i \in 1 .. Len(presets.v) :
        /\ data' = presets.v[i].data
        /\ prompt' = presets.v[i].name
        /\ last' = AppLast("load", "loaded", i)
    /\ UNCHANGED <<keyboardVars, mounted, isLoading, error, presets,
                   storage, clock, requests>>

\* click on the header: setData(null); setPrompt('')
resetHeader ==
    /\ Interactive
    /\ data' = Null
    /\ prompt' = <<>>
    /\ last' = AppLast("reset", "cleared", Null)
    /\ UNCHANGED <<keyboardVars, mounted, isLoading, error, presets,
                   storage, clock, requests>>

---------------------------------------------------------------------------
(* The initial state: the component as mounted, with the default props *)

Init ==
    /\ hasAudio \in BOOLEAN
    /\ audioCtx = FALSE
    /\ nodes = <<>>
    /\ oscillators = EmptyMap
    /\ gainNodes = EmptyMap
    /\ playingNotes = {}
    /\ sustain = FALSE
    /\ octaveShift = 0
    /\ hasAccess = FALSE
    /\ timers = <<>>
    /\ activeNotes = <<>>
    /\ rootNote = <<>>
    /\ note = <<>>
    /\ walletConnected = FALSE
    /\ pendingBalance = FALSE
    /\ pendingSwitch = FALSE
    /\ mounted = FALSE
    /\ prompt = <<>>
    /\ isLoading = FALSE
    /\ data = Null
    /\ error = NoError
    /\ presets = List(<<>>)
    /\ storage = Absent
    /\ clock = 0
    /\ requests = <<>>
    /\ last = [op |-> "init", midi |-> 0, did |-> "init", delay |-> 0]

(* The voice manager: gestures on the explored keys, the release timers,  *)
(* the passage of time and the sustain toggle                              *)
Next ==
    \/ PressStart
    \/ PressEnd
    \/ cleanupTimer
    \/ Tick
    \/ ToggleSustain

Spec == Init /\ [][Next]_vars

(* The keyboard under the octave shifter: gestures, timers, time and the   *)
(* two shifter buttons                                                     *)
NextKeys ==
    \/ PressStart
    \/ PressEnd
    \/ cleanupTimer
    \/ Tick
    \/ ShiftDown
    \/ ShiftUp

SpecKeys == Init /\ [][NextKeys]_vars

(* The rendered keyboard: sampled props, the token gate (whose chain       *)
(* switch stays pending) and gestures                                      *)
NextRender ==
    \/ PassProps
    \/ connectWallet
    \/ checkTokenBalance
    \/ PressStart
    \/ PressEnd
    \/ cleanupTimer
    \/ Tick

SpecRender == Init /\ [][NextRender]_vars

(* The resolver: every note name up to MaxNoteLen characters, handed to    *)
(* the keyboard as an active note and as the root                          *)
InitResolve ==
    /\ hasAudio = TRUE
    /\ audioCtx = FALSE
    /\ nodes = <<>>
    /\ oscillators = EmptyMap
    /\ gainNodes = EmptyMap
    /\ playingNotes = {}
    /\ sustain = FALSE
    /\ octaveShift = 0
    /\ hasAccess = FALSE
    /\ timers = <<>>
    /\ activeNotes = <<>>
    /\ rootNote = <<>>
    /\ note \in NoteStrings
    /\ walletConnected = FALSE
    /\ pendingBalance = FALSE
    /\ pendingSwitch = FALSE
    /\ mounted = FALSE
    /\ prompt = <<>>
    /\ isLoading = FALSE
    /\ data = Null
    /\ error = NoError
    /\ presets = List(<<>>)
    /\ storage = Absent
    /\ clock = 0
    /\ requests = <<>>
    /\ last = [op |-> "init", midi |-> 0, did |-> "init", delay |-> 0]

NextResolve == PassNote

SpecResolve == InitResolve /\ [][NextResolve]_vars

(* The layout: the token gate, the octave shifter and sampled props        *)
NextLayout ==
    \/ connectWallet
    \/ checkTokenBalance
    \/ switchEthereumChain
    \/ ShiftDown
    \/ ShiftUp
    \/ PassProps

SpecLayout == Init /\ [][NextLayout]_vars

(* The application: the page opens on any slot content                     *)
InitApp ==
    /\ hasAudio = TRUE
    /\ audioCtx = FALSE
    /\ nodes = <<>>
    /\ oscillators = EmptyMap
    /\ gainNodes = EmptyMap
    /\ playingNotes = {}
    /\ sustain = FALSE
    /\ octaveShift = 0
    /\ hasAccess = FALSE
    /\ timers = <<>>
    /\ activeNotes = <<>>
    /\ rootNote = <<>>
    /\ note = <<>>
    /\ walletConnected = FALSE
    /\ pendingBalance = FALSE
    /\ pendingSwitch = FALSE
    /\ mounted = FALSE
    /\ prompt = <<>>
    /\ isLoading = FALSE
    /\ data = Null
    /\ error = NoError
    /\ presets = List(<<>>)
    /\ storage \in StoredSlots
    /\ clock = 1
    /\ requests = <<>>
    /\ last = [op |-> "init", midi |-> 0, did |-> "init", delay |-> 0]

NextApp ==
    \/ loadPresets
    \/ reload
    \/ advanceClock
    \/ typePrompt
    \/ handleSubmit
    \/ clickSuggestion
    \/ settleRequest
    \/ handleSavePreset
    \/ handleDeletePreset
    \/ handleLoadPreset
    \/ resetHeader

SpecApp == InitApp /\ [][NextApp]_vars

---------------------------------------------------------------------------
(* Observations used by the properties *)

MidiNotes == { nodes[i].midi : i \in 1 .. Len(nodes) }

LiveOscillators(m) ==
    { i \in 1 .. Len(nodes) : nodes[i].midi = m /\ Live(nodes[i]) }

Ended(n) == n.stopSet /\ n.stopIn = 0

Phase(oscs, nds, m) ==
    IF ~MapHas(oscs, m) THEN "Idle"
    ELSE IF nds[oscs[m]].stopSet THEN "Releasing"
    ELSE "Sounding"

---------------------------------------------------------------------------
(* C1: per MIDI note at most one oscillator that was started and has not  *)
(* reached its scheduled stop time exists at any moment.                   *)
C1_OneLiveOscillatorPerNote ==
    \A m \in MidiNotes : Cardinality(LiveOscillators(m)) <= 1

(* C2: a voice record is deleted only once its oscillator has reached the  *)
(* stop time currently scheduled for it, i.e. after the release ramp.      *)
C2_DeleteAfterRamp ==
    [][\A m \in DOMAIN oscillators :
          ~MapHas(oscillators', m) => Ended(nodes[oscillators[m]])]_vars

(* C3: a sustain-off pressEnd on a voice arms the cleanup for 200 ms plus  *)
(* the 50 ms margin; when that timer fires no oscillator or gain entry is  *)
(* left for the note, only a pressStart brings one back, and a pressEnd    *)
(* that finds no record changes neither the maps nor the nodes nor the     *)
(* timers.                                                                 *)
C3_ShortReleaseCleanup ==
    /\ [][(last'.op = "stop" /\ last'.did = "released" /\ ~sustain) =>
             /\ MapHas(oscillators, last'.midi)
             /\ timers' = Append(timers, [midi |-> last'.midi,
                                          delay |-> 200 + 50,
                                          due |-> 200 + 50])]_vars
    /\ [][last'.op = "timer" =>
             /\ ~MapHas(oscillators', last'.midi)
             /\ ~MapHas(gainNodes', last'.midi)
             /\ \E i \in 1 .. Len(timers) :
                   /\ timers[i].midi = last'.midi
                   /\ timers[i].due = 0
                   /\ timers[i].delay = last'.delay]_vars
    /\ [][last'.op = "tick" =>
             \A i \in 1 .. Len(timers) :
                 timers[i].due > 0 /\ timers'[i].due < timers[i].due]_vars
    /\ [][\A m \in DOMAIN oscillators' :
             ~MapHas(oscillators, m) =>
                 last'.op = "start" /\ last'.midi = m]_vars
    /\ [][(last'.op = "stop" /\ last'.did = "novoice") =>
             /\ ~MapHas(oscillators, last'.midi)
             /\ UNCHANGED <<oscillators, gainNodes, nodes, timers>>]_vars

(* a pressEnd that found no record, right after the timer of a sustain-off *)
(* release deleted the record of that note                                 *)
C3_Witness ==
    /\ last.op = "stop"
    /\ last.did = "novoice"
    /\ last.delay = 200 + 50
    /\ ~MapHas(oscillators, last.midi)
    /\ \E i \in 1 .. Len(nodes) :
          nodes[i].midi = last.midi /\ Ended(nodes[i])

(* C4: each note moves Idle -> Sounding on pressStart, Sounding ->         *)
(* Releasing on pressEnd and Releasing -> Idle on the release timer, and   *)
(* a pressStart on a Releasing note changes nothing.                       *)
C4_VoiceStateMachine ==
    [][\A m \in (DOMAIN oscillators) \cup (DOMAIN oscillators') :
          LET a == Phase(oscillators, nodes, m)
              b == Phase(oscillators', nodes', m)
          IN /\ a # b =>
                  \/ a = "Idle" /\ b = "Sounding" /\ last'.op = "start"
                  \/ a = "Sounding" /\ b = "Releasing" /\ last'.op = "stop"
                  \/ a = "Releasing" /\ b = "Idle" /\ last'.op = "timer"
             /\ (a = "Releasing" /\ last'.op = "start" /\ last'.midi = m) =>
                  UNCHANGED <<nodes, oscillators, gainNodes, timers,
                              playingNotes>>]_vars

---------------------------------------------------------------------------
(* Observations of the rendered keys *)

Rects(elems) ==
    { i \in 1 .. Len(elems) : elems[i].kind \in {"white", "black"} }

Visual(k) ==
    IF k.fill = "#22d3ee" THEN "pressed"
    ELSE IF k.fill \in {"#8b5cf6", "#7c3aed"} THEN "root"
    ELSE IF k.fill \in {"#60a5fa", "#3b82f6"} THEN "externallyActive"
    ELSE IF k.fill \in {"white", "#1e293b"} THEN "default"
    ELSE "none"

Geometry(k) ==
    [kind |-> k.kind, oct |-> k.oct, noteIndex |-> k.noteIndex,
     x |-> k.x, y |-> k.y, width |-> k.width, height |-> k.height]

GeometryOf(elems) == [i \in 1 .. Len(elems) |-> Geometry(elems[i])]

(* Note names read independently of the lookup table: a letter, an         *)
(* optional accidental, and digits                                         *)
LetterPitch ==
    ("C" :> 0) @@ ("D" :> 2) @@ ("E" :> 4) @@ ("F" :> 5) @@ ("G" :> 7) @@
    ("A" :> 9) @@ ("B" :> 11) @@
    ("c" :> 0) @@ ("d" :> 2) @@ ("e" :> 4) @@ ("f" :> 5) @@ ("g" :> 7) @@
    ("a" :> 9) @@ ("b" :> 11)

AccidentalShift == ("#" :> 1) @@ ("b" :> 11) @@ ("B" :> 11)

CorePitch(c) ==
    IF Len(c) = 1 /\ c[1] \in DOMAIN LetterPitch
    THEN LetterPitch[c[1]]
    ELSE IF /\ Len(c) = 2
            /\ c[1] \in DOMAIN LetterPitch
            /\ c[2] \in DOMAIN AccidentalShift
    THEN (LetterPitch[c[1]] + AccidentalShift[c[2]]) % 12
    ELSE 0 - 1

RECURSIVE WithoutOctaveSuffix(_)
WithoutOctaveSuffix(str) ==
    IF Len(str) > 0 /\ str[Len(str)] \in Digits
    THEN WithoutOctaveSuffix(SubSeq(str, 1, Len(str) - 1))
    ELSE str

RECURSIVE WithoutDigits(_)
WithoutDigits(str) ==
    IF str = <<>> THEN <<>>
    ELSE IF str[1] \in Digits THEN WithoutDigits(Tail(str))
    ELSE <<str[1]>> \o WithoutDigits(Tail(str))

\* the pitch class a spelling letter[accidental][octave digits] names
SpelledPitch(str) == CorePitch(WithoutOctaveSuffix(str))

\* a name that is a letter and an optional accidental once its digits go
Recognized(str) == CorePitch(WithoutDigits(str)) >= 0

SpellingsOf ==
    [p \in 0 .. 11 |-> { t \in NoteStrings : SpelledPitch(t) = p }]

---------------------------------------------------------------------------
(* C5: every key shows pressed if its MIDI number is in the pressed set,   *)
(* else root if its pitch class is the root, else active if its pitch      *)
(* class is in the active set, else default; the non-audio Piano applies   *)
(* root, then active, then default.                                        *)
C5_FillPrecedence ==
    LET ks == keys
        ps == pianoKeys
        rIdx == rootIndex
        aIdx == activeIndices
    IN /\ \A i \in Rects(ks) :
             LET k == ks[i]
                 P == k.midiNote \in playingNotes
                 R == k.noteIndex = rIdx
                 A == k.noteIndex \in aIdx
             IN /\ P => Visual(k) = "pressed"
                /\ (~P /\ R) => Visual(k) = "root"
                /\ (~P /\ ~R /\ A) => Visual(k) = "externallyActive"
                /\ (~P /\ ~R /\ ~A) => Visual(k) = "default"
       /\ \A i \in Rects(ps) :
             LET k == ps[i]
                 R == k.noteIndex = rIdx
                 A == k.noteIndex \in aIdx
             IN /\ R => Visual(k) = "root"
                /\ (~R /\ A) => Visual(k) = "externallyActive"
                /\ (~R /\ ~A) => Visual(k) = "default"

(* a pressed key whose pitch class is both the root and an active note,    *)
(* next to an unpressed key of the same pitch class                        *)
C5_Witness ==
    LET ks == keys
        rIdx == rootIndex
        aIdx == activeIndices
    IN /\ playingNotes # {}
       /\ rIdx \in aIdx
       /\ \E i \in Rects(ks) :
             /\ ks[i].midiNote \in playingNotes
             /\ ks[i].noteIndex = rIdx
       /\ \E i \in Rects(ks) :
             /\ ks[i].midiNote \notin playingNotes
             /\ ks[i].noteIndex = rIdx

(* C6: spellings of one pitch class, in either letter case and with or     *)
(* without octave digits after them, resolve to that same pitch class.     *)
C6_EnharmonicAgree ==
    LET p == SpelledPitch(rootNote)
    IN p >= 0 =>
          /\ rootIndex \in 0 .. 11
          /\ \A t \in SpellingsOf[p] : noteToOffset(t) = rootIndex

(* a lower-case flat spelling with an octave digit was resolved, and its   *)
(* pitch class has a sharp spelling too                                    *)
C6_Witness ==
    /\ rootNote = <<"d", "b", "4">>
    /\ rootIndex = 1
    /\ <<"C", "#">> \in SpellingsOf[SpelledPitch(rootNote)]

(* C7: a name that is not a note spelling resolves to -1, adds nothing to  *)
(* the active pitch classes and, as the root, marks no key; every key of   *)
(* both keyboards still gets a visual state.                               *)
C7_UnrecognizedIgnored ==
    LET ks == keys
        ps == pianoKeys
    IN /\ \A i \in 1 .. Len(activeNotes) :
             ~Recognized(activeNotes[i]) =>
                 noteToOffset(activeNotes[i]) = 0 - 1
       /\ activeIndices =
             { CorePitch(WithoutDigits(activeNotes[i])) :
                 i \in { j \in 1 .. Len(activeNotes) :
                           Recognized(activeNotes[j]) } }
       /\ ~Recognized(rootNote) =>
             /\ rootIndex = 0 - 1
             /\ \A i \in Rects(ks) : Visual(ks[i]) # "root"
             /\ \A i \in Rects(ps) : Visual(ps[i]) # "root"
       /\ Cardinality(Rects(ks)) = 12 * octaves
       /\ Cardinality(Rects(ps)) = 12 * 2
       /\ \A i \in Rects(ks) :
             Visual(ks[i]) \in
                 {"default", "externallyActive", "root", "pressed"}
       /\ \A i \in Rects(ps) :
             Visual(ps[i]) \in {"default", "externallyActive", "root"}

(* an unrecognized name is the root and follows a valid name in the        *)
(* active notes                                                            *)
C7_Witness ==
    /\ rootNote # <<>>
    /\ ~Recognized(rootNote)
    /\ Len(activeNotes) = 2
    /\ ~Recognized(activeNotes[2])
    /\ activeIndices = {0}

(* C8: each rendered octave holds 7 white keys with pitch classes          *)
(* {0,2,4,5,7,9,11} and 5 black keys with pitch classes {1,3,6,8,10}.      *)
C8_KeysPerOctave ==
    LET ks == keys
        ps == pianoKeys
        White(e, o) == { i \in Rects(e) : e[i].kind = "white" /\ e[i].oct = o }
        Black(e, o) == { i \in Rects(e) : e[i].kind = "black" /\ e[i].oct = o }
        Pcs(e, I) == { e[i].noteIndex : i \in I }
    IN /\ \A o \in 0 .. (octaves - 1) :
             /\ Cardinality(White(ks, o)) = 7
             /\ Pcs(ks, White(ks, o)) = {0, 2, 4, 5, 7, 9, 11}
             /\ Cardinality(Black(ks, o)) = 5
             /\ Pcs(ks, Black(ks, o)) = {1, 3, 6, 8, 10}
       /\ Cardinality(Rects(ks)) = (7 + 5) * octaves
       /\ \A o \in 0 .. 1 :
             /\ Cardinality(White(ps, o)) = 7
             /\ Pcs(ps, White(ps, o)) = {0, 2, 4, 5, 7, 9, 11}
             /\ Cardinality(Black(ps, o)) = 5
             /\ Pcs(ps, Black(ps, o)) = {1, 3, 6, 8, 10}
       /\ Cardinality(Rects(ps)) = 14 + 10

(* the extended range is rendered: four octaves of keys                    *)
C8_Witness ==
    LET ks == keys
    IN /\ hasAccess
       /\ last.op = "balance"
       /\ Cardinality({ i \in Rects(ks) : ks[i].kind = "white" }) = 28
       /\ Cardinality({ i \in Rects(ks) : ks[i].kind = "black" }) = 20

(* C9: whatever octaveShift is, kind, octave slot, pitch class, position   *)
(* and size of every rendered element are those of the unshifted keyboard  *)
(* with the same number of octaves.                                        *)
C9_ShiftKeepsGeometry ==
    GeometryOf(keys) =
        GeometryOf(tokenKeys(0, octaves, 0, activeIndices, rootIndex))

(* the shifter moved the keyboard while a key was held                     *)
C9_Witness ==
    /\ last.op \in {"shiftUp", "shiftDown"}
    /\ octaveShift # 0
    /\ playingNotes # {}
    /\ keys[1].midiNote # midiNoteOf(0, 0, 0)

(* C10: octaveShift stays within -2 .. 2.                                  *)
C10_ShiftInRange == octaveShift \in (0 - 2) .. 2

(* the shift-up button took the shift to the top of the range              *)
C10_Witness == last.op = "shiftUp" /\ octaveShift = 2

---------------------------------------------------------------------------
(* Observations of the token gate *)

WalletOps == {"connect", "balance", "switch"}

WalletFailures == {"nowallet", "rejected", "failed", "unknownchain", "refused"}

(* C16: hasAccess turns true only when a balance query returned a positive *)
(* balance, and right after any wallet failure (no wallet, rejected        *)
(* connection, failed contract call, failed chain switch) the keyboard     *)
(* is at the default two octaves.                                          *)
C16_GatedRange ==
    [][/\ (hasAccess' /\ ~hasAccess) =>
              (last'.op = "balance" /\ last'.did = "positive")
       /\ (last'.op \in WalletOps /\ last'.did \in WalletFailures) =>
              octaves' = DEFAULT_OCTAVES]_vars

---------------------------------------------------------------------------
KnownNotes(oscs, gains, pressed) ==
    (DOMAIN oscs) \cup (DOMAIN gains) \cup pressed

(* C18: a pressStart, pressEnd or cleanup timer for note m leaves, for     *)
(* every other note n, the oscillator and gain entries, the nodes they     *)
(* point to and the pressed flag as they were.                             *)
C18_IndependentVoices ==
    [][last'.op \in {"start", "stop", "timer"} =>
         \A n \in (KnownNotes(oscillators, gainNodes, playingNotes) \cup
                   KnownNotes(oscillators', gainNodes', playingNotes'))
                      \ {last'.midi} :
             /\ MapHas(oscillators', n) = MapHas(oscillators, n)
             /\ MapHas(gainNodes', n) = MapHas(gainNodes, n)
             /\ MapHas(oscillators, n) =>
                   /\ oscillators'[n] = oscillators[n]
                   /\ nodes'[oscillators[n]] = nodes[oscillators[n]]
             /\ MapHas(gainNodes, n) => gainNodes'[n] = gainNodes[n]
             /\ (n \in playingNotes') = (n \in playingNotes)]_vars

(* a key was released while another note had a voice record *)
C18_Witness ==
    /\ last.op = "stop"
    /\ last.did = "released"
    /\ \E n \in DOMAIN oscillators : n # last.midi /\ n \in playingNotes

(* C19: the key of rendered octave o and pitch class p carries the MIDI    *)
(* number (START_OCTAVE + o + octaveShift + 1) * 12 + p, and the keys of   *)
(* a layout map one-to-one onto the 12 * octaves numbers that start at     *)
(* 12 * (START_OCTAVE + octaveShift + 1).                                  *)
C19_MidiNumbers ==
    LET ks == keys
        rs == Rects(ks)
        lo == 12 * (START_OCTAVE + octaveShift + 1)
    IN /\ \A i \in rs :
              ks[i].midiNote =
                  (START_OCTAVE + ks[i].oct + octaveShift + 1) * 12
                      + ks[i].noteIndex
       /\ { ks[i].midiNote : i \in rs } = lo .. (lo + 12 * octaves - 1)
       /\ Cardinality(rs) = 12 * octaves

(* the four-octave keyboard shifted down as far as it goes *)
C19_Witness ==
    hasAccess /\ octaveShift = 0 - 2 /\ last.op = "shiftDown"

(* the slot of each white pitch class and the gap of each black one *)
WhiteSlot ==
    (0 :> 0) @@ (2 :> 1) @@ (4 :> 2) @@ (5 :> 3) @@ (7 :> 4) @@ (9 :> 5) @@
    (11 :> 6)

BlackGap == (1 :> 1) @@ (3 :> 2) @@ (6 :> 4) @@ (8 :> 5) @@ (10 :> 6)

Overlap(a, b) == a.x < b.x + b.width /\ b.x < a.x + a.width

(* C20: a white key of octave o and slot i is at o*7*w + i*w; a black key  *)
(* with gap g is at o*7*w + g*w - blackKeyWidth/2; every key lies within   *)
(* 0 .. 7*w*octaves, every black key within its own octave, and a black    *)
(* key overlaps only white keys emitted before it.                         *)
C20_KeyGeometry ==
    LET ks == keys
        rs == Rects(ks)
        w == whiteKeyWidth
    IN \A i \in rs :
        LET k == ks[i]
            left == k.oct * 7 * w
        IN /\ k.kind = "white" =>
                 /\ k.noteIndex \in DOMAIN WhiteSlot
                 /\ k.x = left + WhiteSlot[k.noteIndex] * w
                 /\ k.width = w
           /\ k.kind = "black" =>
                 /\ k.noteIndex \in DOMAIN BlackGap
                 /\ 2 * k.x = 2 * (left + BlackGap[k.noteIndex] * w)
                                  - blackKeyWidth
                 /\ k.width = blackKeyWidth
                 /\ left <= k.x
                 /\ k.x + k.width <= left + 7 * w
                 /\ \A j \in rs :
                        (ks[j].kind = "white" /\ Overlap(ks[j], k)) => j < i
           /\ 0 <= k.x
           /\ k.x + k.width <= 7 * w * octaves
           /\ 7 * w * octaves = totalWidth

(* the four-octave keyboard right after the balance unlocked it *)
C20_Witness ==
    /\ hasAccess
    /\ last.op = "balance"
    /\ Len(keys) > 2 * 13

---------------------------------------------------------------------------
(* Observations of the application *)

PresetIds(list) == { list.v[i].id : i \in 1 .. Len(list.v) }

\* the slot holds the JSON text of an array
ValidStore(st) ==
    /\ st.t = "text"
    /\ st.toks # <<>>
    /\ parse(st.toks) # SyntaxError
    /\ parse(st.toks).t = "array"

\* a response that is no theory result: no text, text that does not parse,
\* or a value that is not an object with a list of notes
Malformed(response) ==
    /\ response # Rejected
    /\ IF response.toks = <<>> THEN TRUE
       ELSE IF parse(response.toks) = SyntaxError THEN TRUE
       ELSE IF parse(response.toks).t # "object" THEN TRUE
       ELSE parse(response.toks).notes.t # "array"

C12_DeleteAbsentKeepsList ==
    [][(/\ last'.op = "delete"
        /\ last'.did = "deleted"
        /\ last'.arg \notin PresetIds(presets)) => presets' = presets]_vars

(* a delete of an absent id ran on a list that holds presets *)
C12_Witness ==
    /\ last.op = "delete"
    /\ last.did = "deleted"
    /\ presets.t = "array"
    /\ Len(presets.v) = 2
    /\ last.arg \notin PresetIds(presets)

(* C13: when the slot is missing or does not hold the JSON text of a       *)
(* list, the mount effect leaves presets an empty list and the App         *)
(* renders.                                                                *)
C13_CorruptStoreFallsBack ==
    [][(last'.op = "mount" /\ ~ValidStore(storage)) =>
           /\ presets' = List(<<>>)
           /\ ~presetsRenderThrows']_vars

C15_MalformedIsFailure ==
    [][(last'.op = "settle" /\ Malformed(last'.arg)) =>
           /\ error' = ErrorMessage
           /\ data' = data
           /\ ~dataRenderThrows']_vars

---------------------------------------------------------------------------
(* C21: isLoading is true exactly while a resolver request is in flight,   *)
(* and never more than one request is in flight.                           *)
C21_LoadingWhileInFlight ==
    /\ isLoading <=> requests # <<>>
    /\ Len(requests) <= 1

(* a request is in flight while an earlier result is on screen *)
C21_Witness ==
    /\ isLoading
    /\ Len(requests) = 1
    /\ Truthy(data)
    /\ last.op = "request"

---------------------------------------------------------------------------
(* C22: nothing cancels or tags a request. Loading a preset or clicking    *)
(* the header leaves the request in flight, and a response that resolves   *)
(* afterwards becomes the current result whatever was shown meanwhile.     *)
C22_StaleResponseOverwrites ==
    [][/\ last'.op \in {"load", "reset"} =>
            /\ requests' = requests
            /\ isLoading' = isLoading
       /\ (last'.op = "settle" /\ last'.did = "resolved") =>
            data' = parse(last'.arg.toks)]_vars

(* the header was clicked while the request was in flight (the prompt is *)
(* empty, which no request leaves behind), and the response still landed *)
C22_Witness ==
    /\ last.op = "settle"
    /\ last.did = "resolved"
    /\ prompt = <<>>
    /\ data = ResultB

---------------------------------------------------------------------------
(* C23: a cleanup timer removes only the voice whose release scheduled it: *)
(* no timer step deletes the record of a voice that is Sounding.           *)
C23_TimerSparesSounding ==
    [][(last'.op = "timer" /\ last'.did = "deleted") =>
          Phase(oscillators, nodes, last'.midi) # "Sounding"]_vars

---------------------------------------------------------------------------
(* C24: once every held key is released and every timer has fired, each    *)
(* started oscillator has a stop scheduled.                                *)
C24_EveryOscillatorStops ==
    (playingNotes = {} /\ timers = <<>>) =>
        \A i \in 1 .. Len(nodes) : nodes[i].stopSet

---------------------------------------------------------------------------
(* C25: a shift-up click below 2 sets octaveShift to s + 1 and a           *)
(* shift-down click above -2 sets it to s - 1.                             *)
C25_ShiftBySingleSteps ==
    [][/\ last'.op = "shiftUp" => octaveShift' = octaveShift + 1
       /\ last'.op = "shiftDown" => octaveShift' = octaveShift - 1]_vars

---------------------------------------------------------------------------
(* C26: the ids of the presets in the list are pairwise distinct after any *)
(* sequence of saves, deletes and reloads.                                 *)
C26_DistinctPresetIds ==
    presets.t = "array" =>
        \A i, j \in 1 .. Len(presets.v) :
            presets.v[i].id = presets.v[j].id => i = j

=============================================================================
